---- MODULE Spec2Model ----
(***************************************************************************)
(* State-machine model of the DDPG learning core in src/agent.py:          *)
(* ReplayBuffer (fixed-capacity FIFO store), OUNoise (Ornstein-Uhlenbeck   *)
(* exploration noise) and DDPGAgent (step / act / reset / learn / save /   *)
(* load), plus the configuration the driver in src/driver.py passes.       *)
(*                                                                         *)
(* Abstractions, all stated where they are made:                           *)
(*  - a transition is identified by its insertion index (e0, e1, ...);     *)
(*  - a network's parameter set is the history of the operations that      *)
(*    produced it (its random initialisation, optimizer steps, Polyak      *)
(*    blends), since the numeric effect of a gradient step is not          *)
(*    computable here;                                                     *)
(*  - the noise vector is one component, in fixed point (units of 1/20),   *)
(*    and the standard-normal draw ranges over Epsilons;                   *)
(*  - Python objects that can alias (numpy arrays of OUNoise) live in an   *)
(*    explicit heap of references.                                         *)
(***************************************************************************)
EXTENDS Integers, Sequences, FiniteSets, TLC

(***************************************************************************)
(* Bounds of the model.  BATCH_SIZE and BUFFER_SIZE stand for the module   *)
(* constants of src/agent.py:14-15 (514 and 100000), scaled down so that   *)
(* filling the store, exceeding the minibatch size and evicting all occur. *)
(***************************************************************************)
BATCH_SIZE == 2
BUFFER_SIZE == 5
MaxRows == 3
MaxSteps == 3
MaxLearnEvery == 2
MaxIterations == 2
MaxDirectLearns == 1
MaxAdds == 8
MaxNoiseRows == 2
MaxNoiseAge == 2
MaxNoiseSamples == 5
MaxDriverSteps == 21
MaxDriverRejects == 1

\* learn_every and iterations_per_learn as passed by main() to trainer.train
DriverLearnEvery == 10
DriverIterationsPerLearn == 10

VARIABLES
    step_count,            \* DDPGAgent.step_count
    learn_every,           \* DDPGAgent.learn_every
    iterations_per_learn,  \* DDPGAgent.iterations_per_learn
    memory,                \* ReplayBuffer.memory: the deque, oldest first
    total_adds,            \* number of ReplayBuffer.add calls so far (names the transitions)
    nets,                  \* the four parameter sets, by attribute name
    actor_training,        \* actor_local's train/eval mode flag
    noise,                 \* the OUNoise object: references mu, state, the array heap,
                           \* and age, the number of __sample__ calls since the last reset
    files,                 \* the file system: the set of checkpoint files with their contents
    learn_calls,           \* number of DDPGAgent.learn calls so far
    last,                  \* observation of the last call: what ran and what it raised
    ingest_log             \* observation of the driver's successive step calls

vars == <<step_count, learn_every, iterations_per_learn, memory, total_adds, nets,
          actor_training, noise, files, learn_calls, last, ingest_log>>

agent_vars == <<step_count, learn_every, iterations_per_learn, nets, actor_training,
                files, learn_calls>>

(***************************************************************************)
(* ReplayBuffer                                                            *)
(***************************************************************************)

\* deque(maxlen=buffer_size)
NewDeque == <<>>

\* deque.append on a bounded deque: at maxlen the leftmost element is dropped
DequeAppendKeepOldest(d, e, maxlen) ==
    IF Len(d) >= maxlen THEN d ELSE Append(d, e)

DequeAppend(d, e, maxlen) ==
    IF maxlen = 0 THEN d
    ELSE IF Len(d) >= maxlen THEN Append(Tail(d), e)
    ELSE Append(d, e)

\* ReplayBuffer.add: e = Experience(...); self.memory.append(e)
Add(mem, e) == DequeAppend(mem, e, BUFFER_SIZE)

\* ReplayBuffer.__len__
BufferLen(mem) == Len(mem)

\* the transition built by the k-th add call
Experience(k) == [id |-> k]

\* the sequences of k distinct positions of a population of n
Selections(n, k) ==
    {s \in [1..k -> 1..n] : \A i, j \in 1..k : i # j => s[i] # s[j]}

\* ReplayBuffer.sample: random.sample(self.memory, k=self.batch_size), which
\* raises ValueError when the population is smaller than k; the five stacked
\* fields stay row-aligned, so a row is the transition itself
Sample(mem) ==
    IF BATCH_SIZE > Len(mem)
    THEN {[raised |-> "ValueError", experiences |-> <<>>]}
    ELSE {[raised |-> "none", experiences |-> [i \in 1..BATCH_SIZE |-> mem[s[i]]]] :
             s \in Selections(Len(mem), BATCH_SIZE)}

\* whether random.sample raises on this population
SampleRaised(mem) ==
    IF BATCH_SIZE > Len(mem) THEN "ValueError" ELSE "none"

(***************************************************************************)
(* OUNoise                                                                 *)
(***************************************************************************)

\* theta=0.15, sigma=0.2 as fractions; mu=0. (values are in units of 1/20)
Theta == [num |-> 3, den |-> 20]
Sigma == [num |-> 4, den |-> 20]
Mu == 0

\* representative values of np.random.randn()
Epsilons == {-1, 1}

\* the array heap: three cells suffice (mu, the state, the state being built)
Refs == 0..2
\* an array is the tuple of its components (one here); a free cell holds none
Free == <<>>
Array(v) == <<v>>
Value(a) == a[1]

\* the lowest free cell
NewRef(heap) == CHOOSE r \in Refs : heap[r] = Free /\ \A q \in Refs : heap[q] = Free => r <= q

\* a numpy operation producing a new array with value v
Alloc(heap, v) == [ref |-> NewRef(heap), heap |-> [heap EXCEPT ![NewRef(heap)] = Array(v)]]

\* reference counting: an array neither mu nor state refers to is released
Collect(nz) ==
    [nz EXCEPT !.heap = [r \in Refs |-> IF r \in {nz.mu, nz.state} THEN nz.heap[r] ELSE Free]]

\* OUNoise.reset: self.state = copy.copy(self.mu)
OUResetAliasing(nz) ==
    Collect([nz EXCEPT !.state = nz.mu, !.age = 0])

OUReset(nz) ==
    LET a == Alloc(nz.heap, Value(nz.heap[nz.mu]))
    IN  Collect([nz EXCEPT !.heap = a.heap, !.state = a.ref, !.age = 0])

\* OUNoise.__init__: self.mu = mu * np.ones(size); ...; self.reset()
OUInit ==
    LET a == Alloc([r \in Refs |-> Free], Mu)
    IN  OUReset([mu |-> a.ref, state |-> a.ref, heap |-> a.heap, age |-> 0])

\* dx = theta * (mu - x) + sigma * eps, in units of 1/20 (the mean-reversion
\* term rounded down to a whole unit)
OUDelta(x, mu, eps) ==
    ((Theta.num * (mu - x)) \div Theta.den) + Sigma.num * eps

\* OUNoise.__sample__: x = self.state; self.state = x + dx; return self.state
OUSample(nz, eps) ==
    LET x  == Value(nz.heap[nz.state])
        a  == Alloc(nz.heap, x + OUDelta(x, Value(nz.heap[nz.mu]), eps))
    IN  Collect([nz EXCEPT !.heap = a.heap, !.state = a.ref, !.age = @ + 1])

\* OUNoise.sample_stack: for i in range(num_perspectives): sample[i] = self.__sample__()
RECURSIVE SampleStackFrom(_, _, _)
SampleStackFrom(nz, es, i) ==
    IF i > Len(es) THEN nz ELSE SampleStackFrom(OUSample(nz, es[i]), es, i + 1)

SampleStackOnce(nz, es) ==
    IF Len(es) = 0 THEN nz ELSE OUSample(nz, es[1])

SampleStack(nz, es) == SampleStackFrom(nz, es, 1)

\* value of the noise state and of mu
NoiseX(nz) == Value(nz.heap[nz.state])
NoiseMu(nz) == Value(nz.heap[nz.mu])

(***************************************************************************)
(* The four parameter sets and the update rule                             *)
(***************************************************************************)

NetNames == {"actor_local", "actor_target", "critic_local", "critic_target"}

\* Actor(...)/Critic(...) built with its own np.random.randn() seed
NewNet(name) == <<[op |-> "init", of |-> name]>>

\* optim.Adam(self.actor_local.parameters()), optim.Adam(self.critic_local.parameters())
ActorOptimizerParams == "actor_local"
CriticOptimizerParams == "critic_local"

\* optimizer.step(): one gradient step on the parameters the optimizer holds
OptimizerStep(ns, params) ==
    [ns EXCEPT ![params] = Append(@, [op |-> "step", of |-> params])]

\* DDPGAgent.soft_update: target <- tau*local + (1-tau)*target, 0 < tau < 1
SoftUpdate(ns, local, target) ==
    [ns EXCEPT ![target] = Append(@, [op |-> "blend", of |-> ns[local]])]

\* DDPGAgent.learn on a run state s = [nets, ops, ...]; ops logs the order
LearnCritic(s) ==
    [s EXCEPT !.nets = OptimizerStep(@, CriticOptimizerParams),
              !.ops = Append(@, "critic_optimizer.step")]

LearnActor(s) ==
    [s EXCEPT !.nets = OptimizerStep(@, ActorOptimizerParams),
              !.ops = Append(@, "actor_optimizer.step")]

LearnSoftCritic(s) ==
    [s EXCEPT !.nets = SoftUpdate(@, "critic_local", "critic_target"),
              !.ops = Append(@, "soft_update(critic)")]

LearnSoftActor(s) ==
    [s EXCEPT !.nets = SoftUpdate(@, "actor_local", "actor_target"),
              !.ops = Append(@, "soft_update(actor)")]

LearnSmoothFirst(s) ==
    [LearnActor(LearnCritic(LearnSoftActor(LearnSoftCritic(s))))
        EXCEPT !.updates = @ + 1]

Learn(s) ==
    [LearnSoftActor(LearnSoftCritic(LearnActor(LearnCritic(s))))
        EXCEPT !.updates = @ + 1]

(***************************************************************************)
(* DDPGAgent.step                                                          *)
(***************************************************************************)

\* for ... in zip(states, ...): self.memory.add(...)
RECURSIVE AddRows(_, _, _)
AddRows(mem, first, rows) ==
    IF rows = 0 THEN mem ELSE AddRows(Add(mem, Experience(first)), first + 1, rows - 1)

\* (len(self.memory) > BATCH_SIZE) and (self.step_count % self.learn_every == 0)
ShouldLearnAtBatchSize(mem, sc, every) ==
    (BufferLen(mem) >= BATCH_SIZE) /\ (sc % every = 0)

ShouldLearnNonEmpty(mem, sc, every) ==
    (BufferLen(mem) > 0) /\ (sc % every = 0)

ShouldLearnOffByOne(mem, sc, every) ==
    (BufferLen(mem) > BATCH_SIZE) /\ (sc % every = 1 % every)

ShouldLearn(mem, sc, every) ==
    (BufferLen(mem) > BATCH_SIZE) /\ (sc % every = 0)

\* for i in range(self.iterations_per_learn):
\*     experiences = self.memory.sample(); self.learn(experiences, GAMMA)
RECURSIVE LearnLoop(_, _, _)
LearnLoop(i, mem, s) ==
    IF i = 0 \/ s.raised # "none" THEN s
    ELSE IF SampleRaised(mem) # "none"
         THEN [s EXCEPT !.raised = SampleRaised(mem),
                        !.short_samples = @ + 1]
         ELSE LearnLoop(i - 1, mem, Learn([s EXCEPT !.samples = @ + 1]))

\* a run state: the parameter sets and what the run has done so far
Run(ns) == [nets |-> ns, ops |-> <<>>, updates |-> 0, samples |-> 0,
            short_samples |-> 0, raised |-> "none"]

\* the observation of a call; every field is present in every observation.
\* flag is the call's boolean: step - the assertion passed; act - add_noise;
\* load - the artifact of the prefix was absent; reset - the noise state
\* differed from mu before the call
Observe(op, run, rows, flag, prefix) ==
    [op |-> op, raised |-> run.raised, updates |-> run.updates,
     samples |-> run.samples, short_samples |-> run.short_samples,
     ops |-> run.ops, rows |-> rows, flag |-> flag, prefix |-> prefix,
     experiences |-> <<>>]

\* DDPGAgent.__init__(state_size, action_size, random_seed, learn_every, iterations_per_learn)
InitWith(every, iterations) ==
    /\ step_count = 0
    /\ learn_every = every
    /\ iterations_per_learn = iterations
    /\ memory = NewDeque
    /\ total_adds = 0
    /\ nets = [n \in NetNames |-> NewNet(n)]
    /\ actor_training = TRUE
    /\ noise = OUInit
    /\ files = {}
    /\ learn_calls = 0
    /\ last = Observe("init", Run(nets), 0, FALSE, "")
    /\ ingest_log = <<>>

Init ==
    \E every \in 1..MaxLearnEvery, iterations \in {1, MaxIterations} :
        InitWith(every, iterations)

\* DDPGAgent.step(states, ...): rows = len(states), ndim = len(states.shape)
StepAssertFirst(rows, ndim) ==
    LET sc   == step_count + 1
        mem  == AddRows(memory, total_adds, rows)
        run  == IF ShouldLearn(mem, sc, learn_every)
                THEN LearnLoop(iterations_per_learn, mem, Run(nets))
                ELSE Run(nets)
    IN  /\ IF ndim < 2
           THEN /\ last' = Observe("step", [Run(nets) EXCEPT !.raised = "AssertionError"],
                                   0, FALSE, "")
                /\ UNCHANGED <<step_count, memory, total_adds, nets, learn_calls>>
           ELSE /\ step_count' = sc
                /\ memory' = mem
                /\ total_adds' = total_adds + rows
                /\ nets' = run.nets
                /\ learn_calls' = learn_calls + run.updates
                /\ last' = Observe("step", run, rows, TRUE, "")
        /\ UNCHANGED <<learn_every, iterations_per_learn, actor_training, noise, files>>

Step(rows, ndim) ==
    LET sc   == step_count + 1
        mem  == AddRows(memory, total_adds, rows)
        run  == IF ShouldLearn(mem, sc, learn_every)
                THEN LearnLoop(iterations_per_learn, mem, Run(nets))
                ELSE Run(nets)
    IN  /\ step_count' = sc
        /\ IF ndim < 2
           THEN /\ last' = Observe("step", [Run(nets) EXCEPT !.raised = "AssertionError"],
                                   0, FALSE, "")
                /\ UNCHANGED <<memory, total_adds, nets, learn_calls>>
           ELSE /\ memory' = mem
                /\ total_adds' = total_adds + rows
                /\ nets' = run.nets
                /\ learn_calls' = learn_calls + run.updates
                /\ last' = Observe("step", run, rows, TRUE, "")
        /\ UNCHANGED <<learn_every, iterations_per_learn, actor_training, noise, files>>

\* DDPGAgent.act(states, add_noise): n = states.shape[0]
ActOneNoiseStep(n, add_noise) ==
    /\ actor_training' = TRUE
    /\ IF add_noise
       THEN \E es \in [1..n -> Epsilons] : noise' = SampleStackOnce(noise, es)
       ELSE noise' = noise
    /\ last' = Observe("act", Run(nets), n, add_noise, "")
    /\ UNCHANGED <<step_count, learn_every, iterations_per_learn, memory, total_adds,
                   nets, files, learn_calls>>

Act(n, add_noise) ==
    /\ actor_training' = TRUE
    /\ IF add_noise
       THEN \E es \in [1..n -> Epsilons] : noise' = SampleStack(noise, es)
       ELSE noise' = noise
    /\ last' = Observe("act", Run(nets), n, add_noise, "")
    /\ UNCHANGED <<step_count, learn_every, iterations_per_learn, memory, total_adds,
                   nets, files, learn_calls>>

\* DDPGAgent.reset: self.noise.reset()   (# self.step_count = 0 is commented out)
ResetRestartingCadence ==
    /\ noise' = OUReset(noise)
    /\ step_count' = 0
    /\ last' = Observe("reset", Run(nets), 0, NoiseX(noise) # NoiseMu(noise), "")
    /\ UNCHANGED <<learn_every, iterations_per_learn, memory, total_adds, nets,
                   actor_training, files, learn_calls>>

Reset ==
    /\ noise' = OUReset(noise)
    /\ last' = Observe("reset", Run(nets), 0, NoiseX(noise) # NoiseMu(noise), "")
    /\ UNCHANGED <<step_count, learn_every, iterations_per_learn, memory, total_adds,
                   nets, actor_training, files, learn_calls>>

\* a direct call of DDPGAgent.learn(experiences, gamma)
LearnCall ==
    LET run == Learn(Run(nets))
    IN  /\ nets' = run.nets
        /\ learn_calls' = learn_calls + 1
        /\ last' = Observe("learn", run, 0, FALSE, "")
        /\ UNCHANGED <<step_count, learn_every, iterations_per_learn, memory,
                       total_adds, actor_training, noise, files>>

(***************************************************************************)
(* DDPGAgent.save / DDPGAgent.load                                         *)
(***************************************************************************)

None == "None"
Prefixes == {"ckpt", "other"}

\* the file each parameter set is written to: fileprefix + "_<name>.pth"
FileName(prefix, net) == <<prefix, net, ".pth">>

\* os.path.exists
PathExists(fs, name) == \E f \in fs : f.name = name

\* torch.load of an existing file
FileContent(fs, name) == (CHOOSE f \in fs : f.name = name).content

\* torch.save: creates or overwrites the file
WriteFile(fs, name, content) ==
    {f \in fs : f.name # name} \cup {[name |-> name, content |-> content]}

\* the attributes DDPGAgent.__init__ assigns on self
AgentAttributes ==
    {"device", "feature_extractor", "state_size", "action_size", "learn_every",
     "iterations_per_learn", "actor_local", "actor_target", "actor_optimizer",
     "critic_local", "critic_target", "critic_optimizer", "noise", "step_count",
     "memory"}

\* reading self.<name>: AttributeError when nothing assigned it
GetAttrRaised(name) ==
    IF name \in AgentAttributes THEN "none" ELSE "AttributeError"

\* DDPGAgent.save(fileprefix)
Save(fileprefix) ==
    /\ IF fileprefix = None
       THEN /\ files' = files
            /\ last' = Observe("save", [Run(nets) EXCEPT !.raised = "AssertionError"],
                               0, FALSE, fileprefix)
       ELSE /\ files' = WriteFile(WriteFile(WriteFile(WriteFile(files,
                            FileName(fileprefix, "actor_local"), nets["actor_local"]),
                            FileName(fileprefix, "actor_target"), nets["actor_target"]),
                            FileName(fileprefix, "critic_local"), nets["critic_local"]),
                            FileName(fileprefix, "critic_target"), nets["critic_target"])
            /\ last' = Observe("save", Run(nets), 0, FALSE, fileprefix)
    /\ UNCHANGED <<step_count, learn_every, iterations_per_learn, memory, total_adds,
                   nets, actor_training, noise, learn_calls>>

\* the order in which load reads the four files
LoadOrder == <<"actor_local", "actor_target", "critic_local", "critic_target">>

\* the load_state_dict(torch.load(...)) statements from the i-th on: torch.load
\* raises FileNotFoundError on a missing file, the earlier loads having taken effect
RECURSIVE LoadNets(_, _, _, _)
LoadNets(run, fs, fileprefix, i) ==
    IF i > Len(LoadOrder) THEN run
    ELSE IF ~PathExists(fs, FileName(fileprefix, LoadOrder[i]))
         THEN [run EXCEPT !.raised = "FileNotFoundError"]
         ELSE LoadNets([run EXCEPT !.nets[LoadOrder[i]] =
                                FileContent(fs, FileName(fileprefix, LoadOrder[i]))],
                       fs, fileprefix, i + 1)

\* DDPGAgent.load(fileprefix): the existence test reads self.save_file, the
\* loads read fileprefix; the observation's flag records whether fileprefix's
\* artifact was absent.  save_file ranges over what the attribute could hold,
\* were it assigned.
Load(fileprefix) ==
    LET absent == ~PathExists(files, FileName(fileprefix, "actor_local"))
    IN  /\ IF GetAttrRaised("save_file") # "none"
           THEN /\ nets' = nets
                /\ last' = Observe("load",
                                   [Run(nets) EXCEPT !.raised = GetAttrRaised("save_file")],
                                   0, absent, fileprefix)
           ELSE \E save_file \in Prefixes :
                  LET run == IF PathExists(files, FileName(save_file, "actor_local"))
                             THEN LoadNets(Run(nets), files, fileprefix, 1)
                             ELSE Run(nets)
                  IN  /\ nets' = run.nets
                      /\ last' = Observe("load", run, 0, absent, fileprefix)
        /\ UNCHANGED <<step_count, learn_every, iterations_per_learn, memory, total_adds,
                       actor_training, noise, files, learn_calls>>

(***************************************************************************)
(* The agent driven through its interface                                  *)
(***************************************************************************)

StepCall ==
    /\ step_count < MaxSteps
    /\ \/ \E rows \in 1..MaxRows : Step(rows, 2)
       \/ Step(1, 1)
    /\ UNCHANGED ingest_log

ActCall ==
    /\ \E n \in 1..MaxNoiseRows, add_noise \in BOOLEAN :
          /\ add_noise => noise.age + n <= MaxNoiseAge
          /\ Act(n, add_noise)
    /\ UNCHANGED ingest_log

ResetCall == Reset /\ UNCHANGED ingest_log

DirectLearnCall ==
    /\ learn_calls < MaxDirectLearns
    /\ LearnCall
    /\ UNCHANGED ingest_log

SaveCall ==
    /\ \E p \in Prefixes \cup {None} : Save(p)
    /\ UNCHANGED ingest_log

LoadCall ==
    /\ \E p \in Prefixes : Load(p)
    /\ UNCHANGED ingest_log

\* the episode loop's calls: act, step, reset, and the update rule called directly
Next ==
    \/ StepCall
    \/ ActCall
    \/ ResetCall
    \/ DirectLearnCall

Spec == Init /\ [][Next]_vars

\* training interleaved with checkpointing
NextCheckpoint ==
    \/ StepCall
    \/ DirectLearnCall
    \/ SaveCall
    \/ LoadCall

SpecCheckpoint == Init /\ [][NextCheckpoint]_vars

(***************************************************************************)
(* The driver's configuration: trainer.train(learn_every=10,               *)
(* iterations_per_learn=10), stepping the agent once per environment step  *)
(***************************************************************************)

InitDriver == InitWith(DriverLearnEvery, DriverIterationsPerLearn)

Rejects(log) == Cardinality({i \in DOMAIN log : ~log[i].accepted})

\* one more entry of the log of step calls: the entry at index i is the call
\* that made step_count equal to i
Logged(log, before) ==
    Append(log, [fired |-> last'.updates, before |-> before, accepted |-> last'.flag,
                 rows |-> last'.rows])

\* the environment returns one row per agent, the same number at every step
DriverRows(log) ==
    IF \E i \in DOMAIN log : log[i].accepted
    THEN {log[i].rows : i \in {j \in DOMAIN log : log[j].accepted}}
    ELSE 1..MaxRows

DriverStep ==
    /\ step_count < MaxDriverSteps
    /\ \/ \E rows \in DriverRows(ingest_log) : Step(rows, 2)
       \/ Rejects(ingest_log) < MaxDriverRejects /\ Step(1, 1)
    /\ ingest_log' = Logged(ingest_log, BufferLen(memory))

DriverReset == Reset /\ UNCHANGED ingest_log

NextDriver ==
    \/ DriverStep
    \/ DriverReset

SpecDriver == InitDriver /\ [][NextDriver]_vars

(***************************************************************************)
(* The ReplayBuffer used on its own                                        *)
(***************************************************************************)

BufferAdd ==
    /\ total_adds < MaxAdds
    /\ memory' = Add(memory, Experience(total_adds))
    /\ total_adds' = total_adds + 1
    /\ last' = Observe("add", Run(nets), 1, FALSE, "")
    /\ UNCHANGED <<agent_vars, noise, ingest_log>>

BufferSample ==
    /\ \E o \in Sample(memory) :
          last' = [Observe("sample", [Run(nets) EXCEPT !.raised = o.raised], 0, FALSE, "")
                      EXCEPT !.experiences = o.experiences]
    /\ UNCHANGED <<agent_vars, memory, total_adds, noise, ingest_log>>

NextBuffer ==
    \/ BufferAdd
    \/ BufferSample

SpecBuffer == Init /\ [][NextBuffer]_vars

(***************************************************************************)
(* The OUNoise process used on its own                                     *)
(***************************************************************************)

NoiseReset ==
    /\ noise' = OUReset(noise)
    /\ last' = Observe("noise.reset", Run(nets), 0, NoiseX(noise) # NoiseMu(noise), "")
    /\ UNCHANGED <<agent_vars, memory, total_adds, ingest_log>>

NoiseSample ==
    /\ noise.age < MaxNoiseSamples
    /\ \E eps \in Epsilons : noise' = OUSample(noise, eps)
    /\ last' = Observe("noise.sample", Run(nets), 1, FALSE, "")
    /\ UNCHANGED <<agent_vars, memory, total_adds, ingest_log>>

NoiseSampleStack ==
    /\ \E n \in 1..MaxNoiseRows : \E es \in [1..n -> Epsilons] :
          /\ noise.age + n <= MaxNoiseSamples
          /\ noise' = SampleStack(noise, es)
          /\ last' = Observe("noise.sample_stack", Run(nets), n, FALSE, "")
    /\ UNCHANGED <<agent_vars, memory, total_adds, ingest_log>>

NextNoise ==
    \/ NoiseReset
    \/ NoiseSample
    \/ NoiseSampleStack

SpecNoise == Init /\ [][NextNoise]_vars

(***************************************************************************)
(* Properties                                                              *)
(***************************************************************************)

Min(a, b) == IF a < b THEN a ELSE b

\* C1: after n add calls the store holds exactly the last min(n, C) inserted
\* transitions, oldest first, so its size is min(n, C), and a sample returns
\* only transitions among those (never an evicted one).
C1_FifoEviction ==
    LET m == Min(total_adds, BUFFER_SIZE)
    IN  /\ BufferLen(memory) = m
        /\ \A i \in 1..m : memory[i] = Experience(total_adds - m + (i - 1))
        /\ last.op = "sample" =>
              \A i \in DOMAIN last.experiences :
                  /\ last.experiences[i].id >= total_adds - m
                  /\ last.experiences[i].id < total_adds

\* C1 witness: two transitions were evicted and a sample was then drawn.
C1_Witness ==
    /\ total_adds = BUFFER_SIZE + 2
    /\ last.op = "sample"
    /\ last.raised = "none"
    /\ Len(last.experiences) = BATCH_SIZE

\* C2: a step call runs the update rule iterations_per_learn times, each on
\* its own sample, when after its adds the store is larger than the minibatch
\* size and the incremented step counter is a multiple of learn_every, and
\* zero times in every other case (a call the assertion rejects adds no rows
\* and is such a case).
C2_LearnCadence ==
    last.op = "step" =>
        /\ last.updates =
              (IF /\ last.flag
                  /\ BufferLen(memory) > BATCH_SIZE
                  /\ step_count % learn_every = 0
               THEN iterations_per_learn ELSE 0)
        /\ last.samples = last.updates

\* C2 witness: a step call that ran a burst of two updates.
C2_Witness ==
    /\ last.op = "step"
    /\ iterations_per_learn = 2
    /\ last.updates = 2
    /\ learn_every = 2

Blends(net) == {i \in DOMAIN net : net[i].op = "blend"}
Steps(net) == {i \in DOMAIN net : net[i].op = "step"}

\* the order of operations the update rule is to follow
LearnOps == <<"critic_optimizer.step", "actor_optimizer.step",
              "soft_update(critic)", "soft_update(actor)">>

RECURSIVE Repeat(_, _)
Repeat(seq, k) == IF k = 0 THEN <<>> ELSE seq \o Repeat(seq, k - 1)

\* the k-th smoothing of target blended in local as it was after its k-th
\* optimizer step
TracksLocal(target, local) ==
    \A k \in 1..(Len(nets[target]) - 1) :
        nets[target][k + 1] = [op |-> "blend", of |-> SubSeq(nets[local], 1, k + 1)]

\* C3: every update-rule call is a critic optimizer step, an actor optimizer
\* step, a critic-target smoothing, an actor-target smoothing, in this order;
\* after k calls each target has been smoothed exactly k times, each time
\* toward the local set as just stepped, and no target was ever stepped by an
\* optimizer.
C3_SmoothingEveryUpdate ==
    /\ last.ops = Repeat(LearnOps, last.updates)
    /\ \A t \in {"actor_target", "critic_target"} :
          /\ Cardinality(Blends(nets[t])) = learn_calls
          /\ Steps(nets[t]) = {}
    /\ \A l \in {"actor_local", "critic_local"} :
          /\ Cardinality(Steps(nets[l])) = learn_calls
          /\ Blends(nets[l]) = {}
    /\ TracksLocal("critic_target", "critic_local")
    /\ TracksLocal("actor_target", "actor_local")

\* C3 witness: a burst of two updates after an earlier update.
C3_Witness ==
    /\ last.op = "step"
    /\ last.updates = 2
    /\ learn_calls >= 3

\* C4: the step counter starts at 0, grows by exactly 1 on every step call
\* whatever the rows and whether learning fires, and is unchanged by reset,
\* act and learn.
C4_StepCounter ==
    /\ step_count = 0
    /\ [][IF last'.op = "step"
          THEN step_count' = step_count + 1
          ELSE step_count' = step_count]_vars

\* C4 witness: a reset between step calls, the counter not back at 0.
C4_Witness ==
    /\ last.op = "reset"
    /\ step_count >= 2

\* the value after the recurrence steps es[i..] from x
RECURSIVE Advance(_, _, _)
Advance(x, es, i) ==
    IF i > Len(es) THEN x ELSE Advance(x + OUDelta(x, Mu, es[i]), es, i + 1)

\* C5: act on N rows changes no parameter set, not the store and not the step
\* counter; with add_noise the one noise state moves by exactly N successive
\* recurrence steps, without it the noise object is unchanged.
C5_ActFrame ==
    [][last'.op = "act" =>
          /\ UNCHANGED <<nets, memory, total_adds, step_count, learn_calls>>
          /\ IF last'.flag
             THEN /\ \E es \in [1..last'.rows -> Epsilons] :
                        NoiseX(noise') = Advance(NoiseX(noise), es, 1)
                  /\ NoiseMu(noise') = NoiseMu(noise)
                  /\ noise'.age = noise.age + last'.rows
             ELSE noise' = noise]_vars

\* C5 witness: an exploring act on two rows from a state away from the mean.
C5_Witness ==
    /\ last.op = "act"
    /\ last.flag
    /\ last.rows = 2
    /\ NoiseX(noise) > Sigma.num

\* C6: no sample drawn by a step call finds the store smaller than the
\* minibatch size, the later samples of a burst included.
C6_SamplePrecondition ==
    last.op = "step" =>
        /\ last.short_samples = 0
        /\ last.raised # "ValueError"
        /\ last.samples > 0 => BufferLen(memory) >= BATCH_SIZE

\* C6 witness: the second sample of a burst was drawn.
C6_Witness ==
    /\ last.op = "step"
    /\ last.samples = 2
    /\ BufferLen(memory) = BATCH_SIZE + 1

\* C7: load(prefix) with the artifact of prefix absent raises nothing.
C7_RestoreTolerant ==
    (last.op = "load" /\ last.flag) => last.raised = "none"

\* the calls first..first+9 of the log were all accepted and the first found
\* the store above the minibatch size
Window(first) ==
    /\ first + 9 <= Len(ingest_log)
    /\ ingest_log[first].before > BATCH_SIZE
    /\ \A j \in first..(first + 9) : ingest_log[j].accepted

\* C8 as stated: from any reachable state with the store above the minibatch
\* size, of ten consecutive step calls the tenth runs ten updates and the
\* first nine none.
C8_AllAtTenthCall ==
    \A first \in DOMAIN ingest_log :
        (first + 9 <= Len(ingest_log) /\ ingest_log[first].before > BATCH_SIZE) =>
            /\ ingest_log[first + 9].fired = DriverIterationsPerLearn
            /\ \A j \in first..(first + 8) : ingest_log[j].fired = 0

\* C8 amended: of ten consecutive step calls, the first finding the store
\* above the minibatch size, exactly one makes the step counter a multiple of
\* 10; it runs ten updates if the assertion accepts it, and no other call of
\* the ten runs any; it is the tenth exactly when the counter was a multiple
\* of 10 before the window.
C8_AllAtMultipleOfTen ==
    \A first \in DOMAIN ingest_log :
        (first + 9 <= Len(ingest_log) /\ ingest_log[first].before > BATCH_SIZE) =>
            /\ \A j \in first..(first + 9) :
                  ingest_log[j].fired =
                      (IF ingest_log[j].accepted /\ j % DriverLearnEvery = 0
                       THEN DriverIterationsPerLearn ELSE 0)
            /\ Cardinality({j \in first..(first + 9) : j % DriverLearnEvery = 0}) = 1
            /\ Window(first) =>
                  Cardinality({j \in first..(first + 9) : ingest_log[j].fired > 0}) = 1
            /\ (ingest_log[first + 9].fired > 0) <=>
                  (ingest_log[first + 9].accepted /\ (first - 1) % DriverLearnEvery = 0)

\* C8 witness: a window whose updates ran at a call other than its tenth.
C8_Witness ==
    \E first \in DOMAIN ingest_log :
        /\ Window(first)
        /\ ingest_log[first + 9].fired = 0
        /\ \E j \in first..(first + 8) : ingest_log[j].fired = DriverIterationsPerLearn

\* C9: after reset the state equals mu whatever came before; mu keeps its
\* construction-time value; the state array is never the mu array; the sample
\* after a reset is mu + sigma*eps.
C9_NoiseReset ==
    /\ [](/\ NoiseMu(noise) = Mu
          /\ noise.state # noise.mu
          /\ last.op = "noise.reset" => NoiseX(noise) = NoiseMu(noise))
    /\ [][(last.op = "noise.reset" /\ last'.op = "noise.sample") =>
              \E eps \in Epsilons : NoiseX(noise') = Mu + Sigma.num * eps]_vars
    /\ [][(last.op = "noise.reset" /\ last'.op = "noise.reset") =>
              NoiseX(noise') = NoiseX(noise)]_vars

\* C9 witness: a reset from a state away from mu.
C9_Witness ==
    /\ last.op = "noise.reset"
    /\ last.flag

\* C10 as stated: a step call the assertion rejects leaves the agent as it
\* was: store, step counter and parameter sets.
C10_RejectedLeavesAll ==
    [][(last'.op = "step" /\ last'.raised = "AssertionError") =>
          UNCHANGED <<step_count, memory, total_adds, nets, learn_calls>>]_vars

\* C10 amended: a rejected step call adds no transition and runs no update,
\* but has incremented the step counter by 1.
C10_RejectedStillCounts ==
    [][(last'.op = "step" /\ last'.raised = "AssertionError") =>
          /\ step_count' = step_count + 1
          /\ last'.updates = 0
          /\ UNCHANGED <<memory, total_adds, nets, learn_calls, noise>>]_vars

\* C10 witness: a rejected call took the place of a learning call.
C10_Witness ==
    /\ last.op = "step"
    /\ last.raised = "AssertionError"
    /\ BufferLen(memory) > BATCH_SIZE
    /\ step_count % learn_every = 0
    /\ learn_every = 2

====
